---- MODULE Spec2Model ----
(***************************************************************************)
(* A model of pydepgraph (src/pydepgraph/__init__.py): hierarchical names, *)
(* hop distance, cluster assignment, colour partitioning, graph building   *)
(* and DOT rendering.                                                      *)
(*                                                                         *)
(* A Python str is a sequence of one-character strings, so that            *)
(* startswith, split, join, replace and the code-point order of sorted()   *)
(* are computed as the interpreter computes them.  A Python dict is a      *)
(* sequence of <<key, value>> pairs with distinct keys, in insertion       *)
(* order; None is the value None.                                          *)
(***************************************************************************)
EXTENDS Integers, Sequences, FiniteSets, TLC

VARIABLES
    pc,             \* which call is in progress and how far it got
    pkg1, pkg2,     \* distance: the two arguments
    dist,           \* distance: the returned value
    name,           \* find_best_cluster: the argument; draw_graph: the loop variable
    clusters,       \* the cluster list argument ([str], or [(str, str)] in draw_graph)
    best,           \* find_best_cluster: the returned value
    graph,          \* the graph of packages ({str: [str]})
    self_edges,     \* build_graph_clusters: the argument
    graph_clusters, \* build_graph_clusters: the returned graph of clusters
    string,         \* draw_graph, draw_arrows: the text built so far, line by line
    colors,         \* draw_graph: the color assignment ({str: str})
    draw_mode,      \* draw_graph: the draw mode (cf. DRAW_MODES)
    c_opened,       \* draw_graph: the clusters opened and not yet closed
    todo,           \* draw_graph: what is left of sorted(graph)
    clusters_arg,   \* draw_graph: the cluster list as it was passed
    files,          \* build_graph: the list of (file, path) to analyze
    disk,           \* build_graph: the text of each file, as open().read() gives it
    nread,          \* build_graph: how many of the files the loop has done
    interpreter,    \* which Python runs the program
    names,          \* color_label: the sorted list of names
    start, stop,    \* color_label: the hue interval, as fractions <<n, d>>
    damping,        \* color_label: the damping, as a fraction
    ret,            \* color_label: the returned dict, or the exception raised
    args,           \* main: the parsed command line
    stdout,         \* main: what was written to sys.stdout, line by line
    stderr,         \* main: what was written to sys.stderr
    exit_status     \* main: how the process ended

vars == <<pc, pkg1, pkg2, dist, name, clusters, best, graph, self_edges,
          graph_clusters, string, colors, draw_mode, c_opened, todo, clusters_arg,
          files, disk, nread, interpreter, names, start, stop, damping, ret,
          args, stdout, stderr, exit_status>>

mainVars == <<args, stdout, stderr, exit_status>>

colorVars == <<interpreter, names, start, stop, damping, ret>>

drawVars == <<colors, draw_mode, c_opened, todo, clusters_arg>>
buildVars == <<files, disk, nread>>

\* What each call leaves alone.
distanceFrame ==
    <<name, clusters, best, graph, self_edges, graph_clusters, string, drawVars,
      buildVars, colorVars, mainVars>>
bestClusterFrame ==
    <<pkg1, pkg2, dist, graph, self_edges, graph_clusters, string, drawVars,
      buildVars, colorVars, mainVars>>
clusterGraphFrame ==
    <<pkg1, pkg2, dist, name, best, string, drawVars, buildVars, colorVars, mainVars>>
arrowsFrame ==
    <<pkg1, pkg2, dist, name, clusters, best, self_edges, graph_clusters, drawVars,
      buildVars, colorVars, mainVars>>
drawFrame ==
    <<pkg1, pkg2, dist, best, self_edges, graph_clusters, buildVars, colorVars, mainVars>>
buildFrame ==
    <<pkg1, pkg2, dist, name, clusters, best, self_edges, graph_clusters, string,
      drawVars, colorVars, mainVars>>
colorFrame ==
    <<pkg1, pkg2, dist, name, clusters, best, graph, self_edges, graph_clusters,
      string, drawVars, buildVars, mainVars>>
mainFrame ==
    <<pkg1, pkg2, dist, name, clusters, best, graph, self_edges, graph_clusters,
      string, colors, c_opened, todo, clusters_arg, files, nread, names, start,
      stop, damping, ret>>

\* None, and the value of a variable the call in progress does not have.
None == <<"None">>

DistanceUnused == pkg1 = None /\ pkg2 = None /\ dist = None
BestClusterUnused == name = None /\ best = None
ClusterGraphUnused == self_edges = None /\ graph_clusters = None
BuildUnused == files = None /\ disk = None /\ nread = None
MainUnused ==
    args = None /\ stdout = None /\ stderr = None /\ exit_status = None
ColorUnused ==
    /\ interpreter = None /\ names = None /\ start = None /\ stop = None
    /\ damping = None /\ ret = None
DrawUnused ==
    /\ colors = None /\ draw_mode = None /\ c_opened = None
    /\ todo = None /\ clusters_arg = None

----------------------------------------------------------------------------
(* Python str and list primitives                                          *)

\* ord(c) for the characters the model uses (code points).
Ord(c) ==
    CASE c = "\n" -> 10
      [] c = " " -> 32
      [] c = "," -> 44
      [] c = "-" -> 45
      [] c = "." -> 46
      [] c = "/" -> 47
      [] c = "\\" -> 92
      [] c = "_" -> 95
      [] c = "a" -> 97
      [] c = "b" -> 98
      [] c = "c" -> 99
      [] c = "d" -> 100
      [] c = "e" -> 101
      [] c = "f" -> 102
      [] c = "i" -> 105
      [] c = "m" -> 109
      [] c = "n" -> 110
      [] c = "o" -> 111
      [] c = "p" -> 112
      [] c = "r" -> 114
      [] c = "t" -> 116
      [] c = "x" -> 120
      [] c = "y" -> 121

\* s < t for two str (lexicographic by code point, a proper prefix first).
RECURSIVE StrLess(_, _)
StrLess(s, t) ==
    IF t = <<>> THEN FALSE
    ELSE IF s = <<>> THEN TRUE
    ELSE IF Head(s) = Head(t) THEN StrLess(Tail(s), Tail(t))
    ELSE Ord(Head(s)) < Ord(Head(t))

\* s.startswith(p)
StartsWith(s, p) ==
    /\ Len(p) <= Len(s)
    /\ SubSeq(s, 1, Len(p)) = p

\* s.endswith(p)
EndsWith(s, p) ==
    /\ Len(p) <= Len(s)
    /\ SubSeq(s, Len(s) - Len(p) + 1, Len(s)) = p

\* s.split(sep) for a one-character sep: the pieces between the separators,
\* empty pieces kept ("".split(".") is [""]).
RECURSIVE Split(_, _)
Split(s, sep) ==
    IF \A i \in 1..Len(s) : s[i] # sep THEN <<s>>
    ELSE LET i == CHOOSE j \in 1..Len(s) :
                     /\ s[j] = sep
                     /\ \A k \in 1..(j - 1) : s[k] # sep
         IN <<SubSeq(s, 1, i - 1)>> \o Split(SubSeq(s, i + 1, Len(s)), sep)

\* sep.join(parts) for a one-character sep
RECURSIVE Join(_, _)
Join(parts, sep) ==
    IF parts = <<>> THEN <<>>
    ELSE IF Len(parts) = 1 THEN parts[1]
    ELSE parts[1] \o <<sep>> \o Join(Tail(parts), sep)

\* s.replace(old, new) for a one-character old and any str new
RECURSIVE Replace(_, _, _)
Replace(s, old, new) ==
    IF s = <<>> THEN <<>>
    ELSE (IF Head(s) = old THEN new ELSE <<Head(s)>>) \o Replace(Tail(s), old, new)

\* x in xs for a list
InList(x, xs) == \E i \in 1..Len(xs) : xs[i] = x

----------------------------------------------------------------------------
(* Python dict: <<key, value>> pairs in insertion order                    *)

Keys(d) == [i \in 1..Len(d) |-> d[i][1]]

KeySet(d) == {d[i][1] : i \in 1..Len(d)}

DistinctKeys(d) == \A i, j \in 1..Len(d) : d[i][1] = d[j][1] => i = j

HasKey(d, k) == \E i \in 1..Len(d) : d[i][1] = k

\* d[k]
Get(d, k) == d[CHOOSE i \in 1..Len(d) : d[i][1] = k][2]

\* d[k] = v: a new key goes last, a known key keeps its place.
Put(d, k, v) ==
    IF HasKey(d, k)
    THEN [i \in 1..Len(d) |-> IF d[i][1] = k THEN <<k, v>> ELSE d[i]]
    ELSE Append(d, <<k, v>>)

----------------------------------------------------------------------------
(* Color hashing functions.  A float is the fraction <<n, d>> with d > 0   *)
(* in lowest terms: the arithmetic is exact where the interpreter rounds.  *)

RECURSIVE GCD(_, _)
GCD(x, y) == IF y = 0 THEN x ELSE GCD(y, x % y)

Abs(x) == IF x < 0 THEN -x ELSE x

Frac(n, d) ==
    LET g == GCD(Abs(n), Abs(d))
        sign == IF d < 0 THEN -1 ELSE 1
    IN <<(sign * n) \div g, (sign * d) \div g>>

FAdd(x, y) == Frac(x[1] * y[2] + y[1] * x[2], x[2] * y[2])
FSub(x, y) == Frac(x[1] * y[2] - y[1] * x[2], x[2] * y[2])
FMul(x, y) == Frac(x[1] * y[1], x[2] * y[2])
FDiv(x, y) == Frac(x[1] * y[2], x[2] * y[1])
FInt(k) == <<k, 1>>
\* int(x) for x >= 0
FFloor(x) == x[1] \div x[2]

\* The exception a call ends with.
TypeError == <<"TypeError">>

HexDigits == <<"0", "1", "2", "3", "4", "5", "6", "7", "8", "9",
               "a", "b", "c", "d", "e", "f">>

\* '%02x' % k for an integer 0 <= k < 256
Hex2(k) == <<HexDigits[(k \div 16) + 1], HexDigits[(k % 16) + 1]>>

\* colorsys.hsv_to_rgb(hue, 0.6, 0.8), each channel times 256
hsv_to_rgb_256(hue) ==
    LET s == Frac(6, 10)
        v == Frac(8, 10)
        one == FInt(1)
        h6 == FMul(hue, FInt(6))
        i == FFloor(h6)
        f == FSub(h6, FInt(i))
        p == FMul(v, FSub(one, s))
        q == FMul(v, FSub(one, FMul(s, f)))
        t == FMul(v, FSub(one, FMul(s, FSub(one, f))))
        k == i % 6
        triple == CASE k = 0 -> <<v, t, p>>
                    [] k = 1 -> <<q, v, p>>
                    [] k = 2 -> <<p, v, t>>
                    [] k = 3 -> <<p, q, v>>
                    [] k = 4 -> <<t, p, v>>
                    [] k = 5 -> <<v, p, q>>
    IN [c \in 1..3 |-> FMul(triple[c], FInt(256))]

\* rgb where '%02x' takes a float under every interpreter.
rgb_any_interpreter(hue) ==
    LET c == hsv_to_rgb_256(hue)
    IN Hex2(FFloor(c[1])) \o Hex2(FFloor(c[2])) \o Hex2(FFloor(c[3]))

\* '%02x%02x%02x' % (red * 256, green * 256, blue * 256) with three floats:
\* Python 2 formats int(x); Python 3 raises "TypeError: %x format: an integer
\* is required, not float".
rgb(hue) ==
    IF interpreter = "python3" THEN TypeError
    ELSE LET c == hsv_to_rgb_256(hue)
         IN Hex2(FFloor(c[1])) \o Hex2(FFloor(c[2])) \o Hex2(FFloor(c[3]))

cat(package, nm) ==
    IF nm = <<>> THEN package
    ELSE IF package = <<>> THEN nm
    ELSE package \o <<".">> \o nm

\* Python's sorted() of a set of str.
RECURSIVE Sorted(_)
Sorted(S) ==
    IF S = {} THEN <<>>
    ELSE LET m == CHOOSE x \in S : \A y \in S \ {x} : StrLess(x, y)
         IN <<m>> \o Sorted(S \ {m})

\* ret[cat(word, name)] = color for every item of the dict sub, in order.
RECURSIVE prepend_loop(_, _, _)
prepend_loop(word, sub, r) ==
    IF sub = <<>> THEN r
    ELSE prepend_loop(word, Tail(sub), Put(r, cat(word, Head(sub)[1]), Head(sub)[2]))

RECURSIVE color_label(_, _, _, _)
RECURSIVE groups_loop(_, _, _, _, _, _, _)

\* The loop of color_label over the first-level words still to do.
groups_loop(split, words, cur, step, infra_dist, damp, r) ==
    IF words = <<>> THEN r
    ELSE LET word == Head(words)
             members == SelectSeq(split, LAMBDA x : x[1] = word)
             to_recur == [i \in 1..Len(members) |-> Join(Tail(members[i]), ".")]
             width == FMul(step, FInt(Len(to_recur)))
             sub == color_label(to_recur, cur, FAdd(cur, width), damp)
         IN IF sub = TypeError THEN TypeError
            ELSE groups_loop(split, Tail(words), FAdd(FAdd(cur, width), infra_dist),
                             step, infra_dist, damp, prepend_loop(word, sub, r))

color_label(nms, st, sp, damp) ==
    IF nms = <<>> THEN <<>>
    ELSE IF Len(nms) = 1
    THEN (IF rgb(st) = TypeError THEN TypeError ELSE << <<nms[1], rgb(st)>> >>)
    ELSE LET split == [i \in 1..Len(nms) |-> Split(nms[i], ".")]
             first_level == Sorted({split[i][1] : i \in 1..Len(split)})
         IN IF Len(first_level) = 1
            THEN LET sub == color_label([i \in 1..Len(split) |->
                                            Join(Tail(split[i]), ".")],
                                        st, sp, damp)
                 IN IF sub = TypeError THEN TypeError
                    ELSE prepend_loop(first_level[1], sub, <<>>)
            ELSE LET step == FDiv(FDiv(FSub(sp, st), FInt(Len(nms))), damp)
                     infra_dist ==
                         FDiv(FDiv(FMul(FSub(damp, FInt(1)), FSub(sp, st)),
                                   FInt(Len(first_level))),
                              damp)
                 IN groups_loop(split, first_level, st, step, infra_dist, damp, <<>>)

----------------------------------------------------------------------------
(* Distance between packages                                               *)

\* in_package with the equality test left out.
in_package_no_eq(mod, pkg) == StartsWith(mod, pkg \o <<".">>)

in_package(mod, pkg) ==
    IF mod = pkg THEN TRUE
    ELSE StartsWith(mod, pkg \o <<".">>)

\* One of distance's two loops: for i in xrange(len(split), 0, -1), stop at
\* the first prefix split[:i] that contains pkg, counting the ones before it.
RECURSIVE hops(_, _, _)
hops(pkg, split, i) ==
    IF i = 0 THEN 0
    ELSE IF in_package(pkg, Join(SubSeq(split, 1, i), ".")) THEN 0
    ELSE 1 + hops(pkg, split, i - 1)

\* distance with the second loop left out.
distance_one_way(p1, p2) ==
    LET split2 == Split(p2, ".")
    IN hops(p1, split2, Len(split2))

distance(p1, p2) ==
    LET split1 == Split(p1, ".")
        split2 == Split(p2, ".")
    IN hops(p1, split2, Len(split2)) + hops(p2, split1, Len(split1))

----------------------------------------------------------------------------
(* Graph creation: clusters                                                *)

\* The loop of find_best_cluster over the clusters still to visit.
RECURSIVE best_loop(_, _, _)
best_loop(nm, cls, b) ==
    IF cls = <<>> THEN b
    ELSE LET cluster == Head(cls)
             b2 == IF in_package(nm, cluster)
                   THEN IF b = None THEN cluster
                        ELSE IF in_package(cluster, b) THEN cluster
                        ELSE b
                   ELSE b
         IN best_loop(nm, Tail(cls), b2)

\* find_best_cluster keeping the first cluster that contains the name.
RECURSIVE first_loop(_, _, _)
first_loop(nm, cls, b) ==
    IF cls = <<>> THEN b
    ELSE first_loop(nm, Tail(cls),
                    IF in_package(nm, Head(cls)) /\ b = None THEN Head(cls) ELSE b)

find_first_cluster(nm, cls) == first_loop(nm, cls, None)

find_best_cluster(nm, cls) == best_loop(nm, cls, None)

\* The inner loop of build_graph_clusters: the targets of one node.
RECURSIVE targets_loop(_, _, _, _, _)
targets_loop(targets, cls, se, source, row) ==
    IF targets = <<>> THEN row
    ELSE LET target == find_best_cluster(Head(targets), cls)
             row2 == IF /\ target # None
                        /\ (se \/ target # source)
                        /\ ~InList(target, row)
                     THEN Append(row, target)
                     ELSE row
         IN targets_loop(Tail(targets), cls, se, source, row2)

\* The outer loop of build_graph_clusters over the nodes from the i-th on.
RECURSIVE nodes_loop(_, _, _, _, _)
nodes_loop(g, i, cls, se, gc) ==
    IF i > Len(g) THEN gc
    ELSE LET source == find_best_cluster(g[i][1], cls)
         IN IF source = None THEN nodes_loop(g, i + 1, cls, se, gc)
            ELSE LET gc1 == IF HasKey(gc, source) THEN gc
                            ELSE Put(gc, source, <<>>)
                     row == targets_loop(g[i][2], cls, se, source, Get(gc1, source))
                 IN nodes_loop(g, i + 1, cls, se, Put(gc1, source, row))

\* build_graph_clusters without the self_edges test.
build_graph_clusters_all_edges(g, cls, se) == nodes_loop(g, 1, cls, TRUE, <<>>)

build_graph_clusters(g, cls, se) == nodes_loop(g, 1, cls, se, <<>>)

----------------------------------------------------------------------------
(* Names utility functions and arrows                                      *)

escape(nm) == Replace(Replace(nm, ".", <<"_">>), "-", <<"_">>)

label(nm) == Replace(nm, ".", <<".", "\\", "n">>)

Max(x, y) == IF x >= y THEN x ELSE y

\* get_max_dist's loops: the targets of node i from the j-th on, then the
\* nodes after i.
RECURSIVE max_dist_loop(_, _, _, _)
max_dist_loop(g, i, j, max_dist) ==
    IF i > Len(g) THEN max_dist
    ELSE IF j > Len(g[i][2]) THEN max_dist_loop(g, i + 1, 1, max_dist)
    ELSE LET name_ == g[i][2][j]
         IN max_dist_loop(g, i, j + 1,
                          IF HasKey(g, name_)
                          THEN Max(max_dist, distance(g[i][1], name_))
                          ELSE max_dist)

\* get_max_dist stopping after the first node.
get_max_dist_first_node(g) ==
    IF g = <<>> THEN 0 ELSE max_dist_loop(<<g[1]>>, 1, 1, 0)

get_max_dist(g) == max_dist_loop(g, 1, 1, 0)

\* '%d' % (2 ** e): a negative exponent gives a float below 1, printed as 0.
WeightText(e) == IF e < 0 THEN 0 ELSE 2 ^ e

\* The line '%s -> %s [weight=%d];' by its three formatted fields.
ArrowLine(source, target, weight) ==
    [kind |-> "edge", source |-> source, target |-> target, weight |-> weight]

\* draw_arrows' loops: the targets of node i from the j-th on, then the
\* nodes after i.
RECURSIVE arrows_loop(_, _, _, _, _)
arrows_loop(g, i, j, max_dist, str) ==
    IF i > Len(g) THEN str
    ELSE IF j > Len(g[i][2]) THEN arrows_loop(g, i + 1, 1, max_dist, str)
    ELSE LET name_ == g[i][2][j]
         IN arrows_loop(g, i, j + 1, max_dist,
                        IF HasKey(g, name_)
                        THEN Append(str,
                                    ArrowLine(escape(g[i][1]), escape(name_),
                                              WeightText(max_dist - distance(g[i][1], name_))))
                        ELSE str)

draw_arrows(g) == arrows_loop(g, 1, 1, get_max_dist(g), <<>>)

----------------------------------------------------------------------------
(* Graph creation: the scan of the files                                   *)

adjust(nm) ==
    LET n1 == Replace(nm, "/", <<".">>)
        n2 == IF EndsWith(n1, <<".", "p", "y">>)
              THEN SubSeq(n1, 1, Len(n1) - 3) ELSE n1
    IN IF EndsWith(n2, <<".", "_", "_", "i", "n", "i", "t", "_", "_">>)
       THEN SubSeq(n2, 1, Len(n2) - 9) ELSE n2

\* content.replace("\\\n", ""): every backslash followed by a newline goes.
RECURSIVE RemoveContinuations(_)
RemoveContinuations(s) ==
    IF s = <<>> THEN <<>>
    ELSE IF Len(s) >= 2 /\ s[1] = "\\" /\ s[2] = "\n"
    THEN RemoveContinuations(SubSeq(s, 3, Len(s)))
    ELSE <<Head(s)>> \o RemoveContinuations(Tail(s))

IsSpace(c) == c \in {" ", "\t", "\n", "\r", "\f"}

\* s.split(): the runs of characters that are not whitespace.
RECURSIVE SplitSpace(_)
SplitSpace(s) ==
    IF s = <<>> THEN <<>>
    ELSE IF IsSpace(Head(s)) THEN SplitSpace(Tail(s))
    ELSE LET rest == {i \in 1..Len(s) : IsSpace(s[i])}
             n == IF rest = {} THEN Len(s)
                  ELSE (CHOOSE i \in rest : \A j \in rest : i <= j) - 1
         IN <<SubSeq(s, 1, n)>> \o SplitSpace(SubSeq(s, n + 1, Len(s)))

\* s.strip()
RECURSIVE Strip(_)
Strip(s) ==
    IF s = <<>> THEN <<>>
    ELSE IF IsSpace(Head(s)) THEN Strip(Tail(s))
    ELSE IF IsSpace(s[Len(s)]) THEN Strip(SubSeq(s, 1, Len(s) - 1))
    ELSE s

kw_import == <<"i", "m", "p", "o", "r", "t">>
kw_from == <<"f", "r", "o", "m">>

\* The loop over the names of an import line: each name not yet in the
\* node's list is appended to it.
RECURSIVE import_loop(_, _)
import_loop(tmp, row) ==
    IF tmp = <<>> THEN row
    ELSE LET nm == Split(Strip(Head(tmp)), " ")[1]
         IN import_loop(Tail(tmp),
                        IF ~InList(adjust(nm), row) THEN Append(row, adjust(nm))
                        ELSE row)

\* import_loop without the test for a name already in the list.
RECURSIVE import_loop_no_test(_, _)
import_loop_no_test(tmp, row) ==
    IF tmp = <<>> THEN row
    ELSE import_loop_no_test(Tail(tmp),
                             Append(row, adjust(Split(Strip(Head(tmp)), " ")[1])))

\* One round of build_graph's loop over the lines, without the test for a
\* name already in the list on an import line.
scan_line_no_test(text, row) ==
    LET line == SplitSpace(text)
    IN IF ~InList(kw_import, line) THEN row
       ELSE IF kw_import = line[1]
       THEN import_loop_no_test(Split(Join(Tail(line), " "), ","), row)
       ELSE IF kw_from = line[1]
       THEN IF ~InList(adjust(line[2]), row) THEN Append(row, adjust(line[2]))
            ELSE row
       ELSE row

\* One round of build_graph's loop over the lines: what the line adds to the
\* node's list.
scan_line(text, row) ==
    LET line == SplitSpace(text)
    IN IF ~InList(kw_import, line) THEN row
       ELSE IF kw_import = line[1]
       THEN import_loop(Split(Join(Tail(line), " "), ","), row)
       ELSE IF kw_from = line[1]
       THEN IF ~InList(adjust(line[2]), row) THEN Append(row, adjust(line[2]))
            ELSE row
       ELSE row

RECURSIVE lines_loop(_, _)
lines_loop(lines, row) ==
    IF lines = <<>> THEN row
    ELSE lines_loop(Tail(lines), scan_line(Head(lines), row))

\* One round of build_graph's loop over the files: the graph with the node
\* of the file set to what the scan of its text finds.
build_file(g, file_, text) ==
    LET content == RemoveContinuations(text)
        file_display == adjust(file_)
    IN Put(g, file_display, lines_loop(Split(content, "\n"), <<>>))

----------------------------------------------------------------------------
(* Nodes and clusters                                                      *)

DRAW_MODES == <<"NO_CLUSTERS", "CLUSTERS", "ONLY_CLUSTERS",
                "ONLY_CLUSTERS_WITH_SELF_EDGES">>

\* The line 'subgraph cluster_%s {' by its formatted field.
OpenLine(id) == [kind |-> "open", id |-> id]

\* The line '}'.
CloseLine == [kind |-> "close"]

\* The line '%s [label="%s",fillcolor="#%s"];' by its three formatted fields.
NodeLine(id, lbl, fillcolor) ==
    [kind |-> "node", id |-> id, label |-> lbl, fillcolor |-> fillcolor]

\* list.remove(x): the list without its first element equal to x.
RECURSIVE Remove(_, _)
Remove(l, x) ==
    IF l = <<>> THEN <<>>
    ELSE IF Head(l) = x THEN Tail(l)
    ELSE <<Head(l)>> \o Remove(Tail(l), x)

\* The first inner loop of draw_graph, over the opened clusters that do not
\* contain the name: close each and take it off c_opened.
RECURSIVE close_loop(_, _, _)
close_loop(closing, mode, st) ==
    IF closing = <<>> THEN st
    ELSE close_loop(Tail(closing), mode,
                    [st EXCEPT !.string = IF mode = "CLUSTERS"
                                          THEN Append(@, CloseLine) ELSE @,
                               !.c_opened = Remove(@, Head(closing))])

\* The second inner loop, over the clusters of the list that contain the
\* name: open each, put it on c_opened and take it off the list.
RECURSIVE open_loop(_, _, _, _)
open_loop(opening, mode, cols, st) ==
    IF opening = <<>> THEN st
    ELSE LET cluster == Head(opening)
             line == IF mode = "CLUSTERS"
                     THEN <<OpenLine(escape(cluster[1]))>>
                     ELSE IF /\ mode \in {"ONLY_CLUSTERS",
                                          "ONLY_CLUSTERS_WITH_SELF_EDGES"}
                             /\ HasKey(cols, cluster[1])
                     THEN <<NodeLine(escape(cluster[1]), label(cluster[1]),
                                     Get(cols, cluster[1]))>>
                     ELSE <<>>
         IN open_loop(Tail(opening), mode, cols,
                      [st EXCEPT !.string = @ \o line,
                                 !.c_opened = Append(@, cluster),
                                 !.clusters = Remove(@, cluster)])

\* One round of draw_graph's loop over sorted(graph), for the name nm; st
\* holds c_opened, clusters and string.
draw_node(nm, mode, cols, st) ==
    LET closing == SelectSeq(st.c_opened, LAMBDA x : ~in_package(nm, x[1]))
        st1 == close_loop(closing, mode, st)
        opening == SelectSeq(st1.clusters, LAMBDA x : in_package(nm, x[1]))
        st2 == open_loop(opening, mode, cols, st1)
    IN IF mode \in {"NO_CLUSTERS", "CLUSTERS"}
       THEN [st2 EXCEPT !.string =
                 Append(@, NodeLine(escape(nm), label(nm), Get(cols, nm)))]
       ELSE st2

\* What draw_graph appends after the loop.
RECURSIVE closes(_)
closes(n) == IF n = 0 THEN <<>> ELSE <<CloseLine>> \o closes(n - 1)

draw_end(mode, st) ==
    IF mode = "CLUSTERS" THEN st.string \o closes(Len(st.c_opened)) ELSE st.string

----------------------------------------------------------------------------
(* Names                                                                   *)

MaxDepth == 2

Segments == {<<"a">>, <<"b">>}

\* The dotted names of 1..n segments.
RECURSIVE NamesUpTo(_)
NamesUpTo(n) ==
    IF n = 0 THEN {}
    ELSE LET shorter == NamesUpTo(n - 1)
         IN Segments \cup shorter
                     \cup {x \o <<".">> \o s : x \in shorter, s \in Segments}

n_a == <<"a">>
n_ab == <<"a", ".", "b">>
n_abc == <<"a", ".", "b", ".", "c">>
n_abd == <<"a", ".", "b", ".", "d">>
n_cd == <<"c", ".", "d">>
n_a_dash_b == <<"a", "-", "b">>

n_root == <<>>
n_b == <<"b">>

PkgNames ==
    NamesUpTo(MaxDepth) \cup {n_root, n_abc, n_abd, n_cd, n_a_dash_b, <<"a", "b">>}

\* The lists of at most n elements of S.
RECURSIVE ListsUpTo(_, _)
ListsUpTo(S, n) ==
    IF n = 0 THEN {<<>>}
    ELSE LET shorter == ListsUpTo(S, n - 1)
         IN shorter \cup {Append(l, x) : l \in shorter, x \in S}

\* The lists of at most n elements of S, no element twice.
DistinctListsUpTo(S, n) ==
    {l \in ListsUpTo(S, n) : \A i, j \in 1..Len(l) : l[i] = l[j] => i = j}

\* The rearrangements of the list l.
Rearrangements(l) ==
    LET n == Len(l)
        bij == {f \in [1..n -> 1..n] : \A i, j \in 1..n : f[i] = f[j] => i = j}
    IN {[i \in 1..n |-> l[f[i]]] : f \in bij}

MaxClusters == 3

\* Cluster names: the root directory's cluster is the empty name (adjust("")).
ClusterNames == {n_root, n_a, n_ab, n_b, n_a_dash_b}

----------------------------------------------------------------------------
(* distance(pkg1, pkg2) applied to two names                               *)

InitDistance ==
    /\ MainUnused
    /\ ColorUnused
    /\ BuildUnused
    /\ pc = "distance"
    /\ pkg1 \in PkgNames
    /\ pkg2 \in PkgNames
    /\ dist = None
    /\ BestClusterUnused /\ ClusterGraphUnused /\ DrawUnused
    /\ clusters = None /\ graph = None /\ string = None

CallDistance ==
    /\ pc = "distance"
    /\ dist' = distance(pkg1, pkg2)
    /\ pc' = "distance_done"
    /\ UNCHANGED <<pkg1, pkg2>>
    /\ UNCHANGED distanceFrame

NextDistance == CallDistance

SpecDistance == InitDistance /\ [][NextDistance]_vars

DistanceDone == pc = "distance_done"

\* C2 as stated: distance("a.b.c", "a.b.d") = 2, distance("a.b", "a.b.c") = 1,
\* distance("a", "a") = 0 and distance("a.b", "c.d") = 2.
C2_Original ==
    DistanceDone =>
        /\ (pkg1 = n_abc /\ pkg2 = n_abd) => dist = 2
        /\ (pkg1 = n_ab /\ pkg2 = n_abc) => dist = 1
        /\ (pkg1 = n_a /\ pkg2 = n_a) => dist = 0
        /\ (pkg1 = n_ab /\ pkg2 = n_cd) => dist = 2

\* C2 amended: distance("a.b.c", "a.b.d") = 2, distance("a.b", "a.b.c") = 1,
\* distance("a", "a") = 0, and distance("a.b", "c.d") = 4: two names with no
\* common prefix are two hops up to the root and two hops down again.
C2_Amended ==
    DistanceDone =>
        /\ (pkg1 = n_abc /\ pkg2 = n_abd) => dist = 2
        /\ (pkg1 = n_ab /\ pkg2 = n_abc) => dist = 1
        /\ (pkg1 = n_a /\ pkg2 = n_a) => dist = 0
        /\ (pkg1 = n_ab /\ pkg2 = n_cd) => dist = 4

C2_Witness == DistanceDone /\ pkg1 = n_ab /\ pkg2 = n_cd /\ dist = 4

\* C9: distance(a, a) = 0 and distance(a, b) = distance(b, a) for all names.
C9_Symmetric ==
    DistanceDone =>
        /\ pkg1 = pkg2 => dist = 0
        /\ dist = distance(pkg2, pkg1)

C9_Witness == DistanceDone /\ pkg1 = n_ab /\ pkg2 = n_abc /\ dist = 1

----------------------------------------------------------------------------
(* find_best_cluster(name, clusters) applied to a name and a cluster list  *)

InitBestCluster ==
    /\ MainUnused
    /\ ColorUnused
    /\ BuildUnused
    /\ pc = "find_best_cluster"
    /\ name \in PkgNames
    /\ clusters \in ListsUpTo(ClusterNames, MaxClusters)
    /\ best = None
    /\ DistanceUnused /\ ClusterGraphUnused /\ DrawUnused
    /\ graph = None /\ string = None

CallFindBestCluster ==
    /\ pc = "find_best_cluster"
    /\ best' = find_best_cluster(name, clusters)
    /\ pc' = "find_best_cluster_done"
    /\ UNCHANGED <<name, clusters>>
    /\ UNCHANGED bestClusterFrame

NextBestCluster == CallFindBestCluster

SpecBestCluster == InitBestCluster /\ [][NextBestCluster]_vars

BestClusterDone == pc = "find_best_cluster_done"

\* The clusters of the list cls that contain the name nm.
Containing(nm, cls) == {cls[i] : i \in {j \in 1..Len(cls) : in_package(nm, cls[j])}}

\* C4: find_best_cluster returns None exactly when no cluster of the list
\* contains the name; otherwise the result contains the name and is contained
\* in every cluster of the list that contains the name; the result is the same
\* for every ordering of the list; a name that is a cluster name gets itself.
C4_Deepest ==
    BestClusterDone =>
        /\ best = None <=> Containing(name, clusters) = {}
        /\ best # None =>
              /\ best \in Containing(name, clusters)
              /\ \A c \in Containing(name, clusters) : in_package(best, c)
        /\ \A l \in Rearrangements(clusters) : find_best_cluster(name, l) = best
        /\ InList(name, clusters) => best = name

\* The deeper cluster comes first in the list and a shallower one after it.
C4_Witness ==
    /\ BestClusterDone
    /\ name = n_ab
    /\ clusters = <<n_ab, n_a, n_b>>
    /\ best = n_ab

----------------------------------------------------------------------------
(* build_graph_clusters(graph, clusters, self_edges) applied to a graph    *)

MaxNodes == 2
MaxTargets == 1

RECURSIVE DictsUpTo(_, _, _)
DictsUpTo(K, V, n) ==
    IF n = 0 THEN {<<>>}
    ELSE LET shorter == DictsUpTo(K, V, n - 1)
         IN shorter \cup {d \in {Append(d, <<k, v>>) :
                                     d \in shorter, k \in K, v \in V} :
                              DistinctKeys(d)}

ClusterGraphNodes == {n_a, n_ab, n_b}
ClusterGraphTargets == {n_ab, n_b, n_cd}
ClusterGraphClusters == {n_a, n_ab, n_b}

\* do_graph passes the names of the sorted cluster list.
InitClusterGraph ==
    /\ MainUnused
    /\ ColorUnused
    /\ BuildUnused
    /\ pc = "build_graph_clusters"
    /\ graph \in DictsUpTo(ClusterGraphNodes,
                           ListsUpTo(ClusterGraphTargets, MaxTargets), MaxNodes)
    /\ clusters \in {Sorted(S) : S \in SUBSET ClusterGraphClusters}
    /\ self_edges \in BOOLEAN
    /\ graph_clusters = None
    /\ DistanceUnused /\ BestClusterUnused /\ DrawUnused
    /\ string = None

CallBuildGraphClusters ==
    /\ pc = "build_graph_clusters"
    /\ graph_clusters' = build_graph_clusters(graph, clusters, self_edges)
    /\ pc' = "build_graph_clusters_done"
    /\ UNCHANGED <<graph, clusters, self_edges>>
    /\ UNCHANGED clusterGraphFrame

NextClusterGraph == CallBuildGraphClusters

SpecClusterGraph == InitClusterGraph /\ [][NextClusterGraph]_vars

ClusterGraphDone == pc = "build_graph_clusters_done"

\* Node i of the graph has a target whose best cluster is T.
ImportsInto(i, T) ==
    \E j \in 1..Len(graph[i][2]) : find_best_cluster(graph[i][2][j], clusters) = T

\* C3: the keys of the cluster graph are the best clusters of the nodes that
\* have one; S has T among its targets exactly when a node of best cluster S
\* has a target of best cluster T, and S # T or self_edges; no target twice.
C3_InducedClusterGraph ==
    ClusterGraphDone =>
        LET bc(n) == find_best_cluster(n, clusters)
            nodesOf(S) == {i \in 1..Len(graph) : bc(graph[i][1]) = S}
        IN /\ DistinctKeys(graph_clusters)
           /\ KeySet(graph_clusters) = {bc(n) : n \in KeySet(graph)} \ {None}
           /\ \A S \in KeySet(graph_clusters) :
                 LET row == Get(graph_clusters, S)
                 IN /\ \A i, j \in 1..Len(row) : row[i] = row[j] => i = j
                    /\ \A T \in ClusterGraphClusters \cup {row[i] : i \in 1..Len(row)} :
                          InList(T, row) <=>
                              /\ \E i \in nodesOf(S) : ImportsInto(i, T)
                              /\ self_edges \/ T # S

\* The import inside cluster a.b is dropped and the import into b is kept.
C3_Witness ==
    /\ ClusterGraphDone
    /\ ~self_edges
    /\ clusters = <<n_a, n_ab, n_b>>
    /\ graph = << <<n_ab, <<n_ab>> >>, <<n_a, <<n_b>> >> >>
    /\ graph_clusters = << <<n_ab, <<>> >>, <<n_a, <<n_b>> >> >>

----------------------------------------------------------------------------
(* draw_arrows(graph) applied to a graph                                   *)

ArrowNodes == {n_a, n_ab, n_a_dash_b}
ArrowTargets == {n_ab, n_a_dash_b, n_b}

InitArrows ==
    /\ MainUnused
    /\ ColorUnused
    /\ BuildUnused
    /\ pc = "draw_arrows"
    /\ graph \in DictsUpTo(ArrowNodes, ListsUpTo(ArrowTargets, MaxTargets), MaxNodes)
    /\ string = None
    /\ DistanceUnused /\ BestClusterUnused /\ ClusterGraphUnused /\ DrawUnused
    /\ clusters = None

CallDrawArrows ==
    /\ pc = "draw_arrows"
    /\ string' = draw_arrows(graph)
    /\ pc' = "draw_arrows_done"
    /\ UNCHANGED graph
    /\ UNCHANGED arrowsFrame

NextArrows == CallDrawArrows

SpecArrows == InitArrows /\ [][NextArrows]_vars

ArrowsDone == pc = "draw_arrows_done"

\* The retained edges: <<i, j>> where the j-th target of node i is a key.
Retained == {e \in (1..Len(graph)) \X (1..MaxTargets + 1) :
                /\ e[2] <= Len(graph[e[1]][2])
                /\ HasKey(graph, graph[e[1]][2][e[2]])}

EdgeDistance(e) == distance(graph[e[1]][1], graph[e[1]][2][e[2]])

\* The place of the retained edge e in the output: nodes in the dict's order,
\* each node's targets in list order.
EdgeRank(R, e) ==
    1 + Cardinality({f \in R : f[1] < e[1] \/ (f[1] = e[1] /\ f[2] < e[2])})

\* The largest number of the set D, 0 for the empty set.
Largest(D) == IF D = {} THEN 0 ELSE CHOOSE d \in D : \A x \in D : x <= d

\* C7: draw_arrows emits one edge for each (source, target) with both names
\* keys of the graph, and no other; its weight is 2 to the power (the largest
\* distance of a retained edge, minus the edge's distance), an integer >= 1,
\* and a closer edge never weighs less than a farther one.
C7_Arrows ==
    ArrowsDone =>
        LET R == Retained
            M == Largest({EdgeDistance(e) : e \in R})
        IN /\ Len(string) = Cardinality(R)
           /\ \A e \in R :
                 LET line == string[EdgeRank(R, e)]
                 IN /\ line.source = escape(graph[e[1]][1])
                    /\ line.target = escape(graph[e[1]][2][e[2]])
                    /\ line.weight = 2 ^ (M - EdgeDistance(e))
                    /\ line.weight \in Nat /\ line.weight >= 1
           /\ \A e, f \in R :
                 EdgeDistance(e) < EdgeDistance(f) =>
                     string[EdgeRank(R, e)].weight >= string[EdgeRank(R, f)].weight

\* An edge of distance 1 and an edge of distance 0: weights 1 and 2.
C7_Witness ==
    /\ ArrowsDone
    /\ graph = << <<n_a, <<n_ab>> >>, <<n_ab, <<n_ab>> >> >>
    /\ string = <<ArrowLine(<<"a">>, <<"a", "_", "b">>, 1),
                  ArrowLine(<<"a", "_", "b">>, <<"a", "_", "b">>, 2)>>

----------------------------------------------------------------------------
(* draw_graph(graph, clusters, colors, draw_mode), one round of its loop   *)
(* at a time                                                               *)

MaxDrawNodes == 3

DrawNodes == {n_a, n_a_dash_b, n_ab, n_b}

\* Clusters are (name, path) pairs; the path of a cluster given on the
\* command line is empty.
DrawClusters == {<<n_a, <<>> >>, <<n_ab, <<>> >>, <<n_b, <<>> >>}

ColorValues == {<<"c", "c", "5", "1", "5", "1">>, <<"5", "1", "a", "3", "c", "c">>}

\* The dict with the keys ks in order, each with the value v.
Uniform(ks, v) == [i \in 1..Len(ks) |-> <<ks[i], v>>]

\* The keys of the colour map do_graph computes for the mode: the nodes, or
\* the keys of the graph of clusters.
ColorKeys(g, cls, mode) ==
    IF mode \in {"NO_CLUSTERS", "CLUSTERS"}
    THEN Sorted(KeySet(g))
    ELSE Sorted(KeySet(build_graph_clusters(
                               g, [i \in 1..Len(cls) |-> cls[i][1]],
                               mode = "ONLY_CLUSTERS_WITH_SELF_EDGES")))

InitDraw ==
    /\ MainUnused
    /\ ColorUnused
    /\ BuildUnused
    /\ pc = "draw_graph"
    /\ \E S \in SUBSET DrawNodes :
          /\ Cardinality(S) <= MaxDrawNodes
          /\ graph = Uniform(Sorted(S), <<>>)
    /\ clusters \in ListsUpTo(DrawClusters, MaxClusters)
    /\ clusters_arg = clusters
    /\ draw_mode \in {DRAW_MODES[i] : i \in 1..Len(DRAW_MODES)}
    /\ \E v \in ColorValues : colors = Uniform(ColorKeys(graph, clusters, draw_mode), v)
    /\ c_opened = <<>>
    /\ string = <<>>
    /\ todo = Sorted(KeySet(graph))
    /\ name = None
    /\ DistanceUnused /\ ClusterGraphUnused
    /\ best = None

DrawGraphNode ==
    /\ pc = "draw_graph"
    /\ todo # <<>>
    /\ LET st == draw_node(Head(todo), draw_mode, colors,
                           [c_opened |-> c_opened, clusters |-> clusters,
                            string |-> string])
       IN /\ c_opened' = st.c_opened
          /\ clusters' = st.clusters
          /\ string' = st.string
    /\ name' = Head(todo)
    /\ todo' = Tail(todo)
    /\ UNCHANGED <<pc, graph, colors, draw_mode, clusters_arg>>
    /\ UNCHANGED drawFrame

\* The return of draw_graph without the closing of what is still open.
DrawGraphReturnUnclosed ==
    /\ pc = "draw_graph"
    /\ todo = <<>>
    /\ pc' = "draw_graph_done"
    /\ UNCHANGED <<string, name, todo, c_opened, clusters, graph, colors, draw_mode,
                   clusters_arg>>
    /\ UNCHANGED drawFrame

DrawGraphReturn ==
    /\ pc = "draw_graph"
    /\ todo = <<>>
    /\ string' = draw_end(draw_mode, [c_opened |-> c_opened, string |-> string])
    /\ pc' = "draw_graph_done"
    /\ UNCHANGED <<name, todo, c_opened, clusters, graph, colors, draw_mode,
                   clusters_arg>>
    /\ UNCHANGED drawFrame

NextDraw == DrawGraphNode \/ DrawGraphReturn

SpecDraw == InitDraw /\ [][NextDraw]_vars

DrawDone == pc = "draw_graph_done"

\* How many lines of the text are of the kind k.
Count(str, k) == Cardinality({i \in 1..Len(str) : str[i].kind = k})

\* C1: in mode CLUSTERS the returned text has as many 'subgraph cluster_X {'
\* lines as '}' lines, whatever the graph and the cluster list; during the walk
\* the clusters opened and not yet closed are the ones on c_opened.
C1_Balanced ==
    draw_mode = "CLUSTERS" =>
        /\ pc = "draw_graph" =>
              Count(string, "open") - Count(string, "close") = Len(c_opened)
        /\ DrawDone => Count(string, "open") = Count(string, "close")

\* A duplicate cluster and an unrelated one: a is opened twice, closed twice
\* at node b, and b is closed after the walk.
C1_Witness ==
    /\ DrawDone
    /\ draw_mode = "CLUSTERS"
    /\ clusters_arg = << <<n_a, <<>> >>, <<n_a, <<>> >>, <<n_b, <<>> >> >>
    /\ KeySet(graph) = {n_a, n_b}
    /\ Count(string, "open") = 3
    /\ Count(string, "close") = 3

\* sorted() leaves the cluster list as it is.
IsSorted(cls) == \A i, j \in 1..Len(cls) : i < j => ~StrLess(cls[j][1], cls[i][1])

\* C10: in mode CLUSTERS with a sorted cluster list, when a node's line is
\* emitted the open clusters are exactly the clusters of the list that contain
\* the node.
C10_OpenAreContaining ==
    (/\ draw_mode = "CLUSTERS"
     /\ IsSorted(clusters_arg)
     /\ pc = "draw_graph"
     /\ name # None) =>
        {c_opened[i][1] : i \in 1..Len(c_opened)}
            = {clusters_arg[i][1] :
                   i \in {j \in 1..Len(clusters_arg) :
                              in_package(name, clusters_arg[j][1])}}

----------------------------------------------------------------------------
(* build_graph(files), one file at a time                                  *)

MaxFiles == 2

\* "x/y" as a str, and the lines of a text each ended by a newline.
Text(lines) == IF lines = <<>> THEN <<>> ELSE Join(lines, "\n") \o <<"\n">>

f_mod == <<"p", "/", "m", "o", "d", ".", "p", "y">>
f_pkg == <<"p", ".", "p", "y">>
f_init == <<"p", "/", "_", "_", "i", "n", "i", "t", "_", "_", ".", "p", "y">>
n_p_mod == <<"p", ".", "m", "o", "d">>
n_c == <<"c">>
n_de == <<"d", ".", "e">>

\* import a.b, c
l_import_ab_c == kw_import \o <<" ">> \o n_ab \o <<",", " ">> \o n_c
\* from d.e import f
l_from_de == kw_from \o <<" ">> \o n_de \o <<" ">> \o kw_import \o <<" ", "f">>
\* import c as x, a.b
l_import_c_as == kw_import \o <<" ", "c", " ", "a", "s", " ", "x", ",", " ">> \o n_ab
\* from c import a
l_from_c == kw_from \o <<" ", "c", " ">> \o kw_import \o <<" ", "a">>
\* "from the list": a line of a docstring
l_from_the_list == kw_from \o <<" ", "t", "h", "e", " ", "l", "i", "s", "t">>
\* "import a, \": a line continued on the next
l_import_a_cont == kw_import \o <<" ", "a", ",", " ", "\\">>
\* "    c, b"
l_c_b == <<" ", " ", " ", " ", "c", ",", " ", "b">>
\* from a.__init__ import b
l_from_init ==
    kw_from \o <<" ", "a", ".", "_", "_", "i", "n", "i", "t", "_", "_", " ">>
            \o kw_import \o <<" ", "b">>
\* x = a
l_assign == <<"x", " ", "=", " ", "a">>

Contents ==
    { Text(<<>>),
      Text(<<l_import_ab_c, l_from_de>>),
      Text(<<l_import_c_as, l_import_ab_c, l_from_c>>),
      Text(<<l_from_the_list, l_assign, l_from_c>>),
      Text(<<l_import_a_cont, l_c_b, l_from_init>>) }

FileNames == {f_mod, f_pkg, f_init}

\* The (file, path) pairs do_graph collects: the files under the path ".",
\* and p/mod.py once more under a second path "r".
BuildFiles == {<<f, <<".">> >> : f \in FileNames} \cup {<<f_mod, <<"r">> >>}

\* The files found under the paths, each with a text on the disk.
InitBuild ==
    /\ MainUnused
    /\ ColorUnused
    /\ pc = "build_graph"
    /\ disk \in DictsUpTo(BuildFiles, Contents, MaxFiles)
    /\ files = Keys(disk)
    /\ graph = <<>>
    /\ nread = 0
    /\ DistanceUnused /\ BestClusterUnused /\ ClusterGraphUnused /\ DrawUnused
    /\ clusters = None /\ string = None

BuildGraphFile ==
    /\ pc = "build_graph"
    /\ nread < Len(files)
    /\ graph' = build_file(graph, files[nread + 1][1], Get(disk, files[nread + 1]))
    /\ nread' = nread + 1
    /\ UNCHANGED <<pc, files, disk>>
    /\ UNCHANGED buildFrame

BuildGraphReturn ==
    /\ pc = "build_graph"
    /\ nread = Len(files)
    /\ pc' = "build_graph_done"
    /\ UNCHANGED <<graph, files, disk, nread>>
    /\ UNCHANGED buildFrame

NextBuild == BuildGraphFile \/ BuildGraphReturn

SpecBuild == InitBuild /\ [][NextBuild]_vars

\* The list l with every later duplicate dropped.
RECURSIVE FirstSeen(_)
FirstSeen(l) ==
    IF l = <<>> THEN <<>>
    ELSE LET front == FirstSeen(SubSeq(l, 1, Len(l) - 1))
             x == l[Len(l)]
         IN IF \E i \in 1..(Len(l) - 1) : l[i] = x THEN front ELSE Append(front, x)

\* The names after a leading 'import': the pieces between the commas, each
\* without the blanks around it and cut at its first blank.
ImportedNames(tokens) ==
    LET pieces == Split(Join(Tail(tokens), " "), ",")
    IN [i \in 1..Len(pieces) |-> adjust(Split(Strip(pieces[i]), " ")[1])]

\* The targets of one line as C6 states them: an 'import' line gives its
\* names, a 'from' line gives its second token.
TargetsAsStated(text) ==
    LET tokens == SplitSpace(text)
    IN IF tokens = <<>> THEN <<>>
       ELSE IF tokens[1] = kw_import THEN ImportedNames(tokens)
       ELSE IF tokens[1] = kw_from /\ Len(tokens) >= 2 THEN <<adjust(tokens[2])>>
       ELSE <<>>

\* The same, a 'from' line counting only when it holds an 'import' token.
TargetsAmended(text) ==
    LET tokens == SplitSpace(text)
    IN IF tokens = <<>> THEN <<>>
       ELSE IF tokens[1] = kw_import THEN ImportedNames(tokens)
       ELSE IF tokens[1] = kw_from /\ InList(kw_import, tokens)
       THEN <<adjust(tokens[2])>>
       ELSE <<>>

RECURSIVE Flatten(_)
Flatten(ls) == IF ls = <<>> THEN <<>> ELSE Head(ls) \o Flatten(Tail(ls))

LogicalLines(text) == Split(RemoveContinuations(text), "\n")

\* The file the loop has just done, and the list stored for its node.
LastFile == files[nread]
LastRow == Get(graph, adjust(LastFile[1]))

ExampleHolds ==
    (LastFile[1] = f_mod /\ Get(disk, LastFile) = Text(<<l_import_ab_c, l_from_de>>))
        => (HasKey(graph, n_p_mod) /\ Get(graph, n_p_mod) = <<n_ab, n_c, n_de>>)

\* C6 as stated: the list build_graph stores for a file's node is the
\* sequence of targets of its lines (the names of an 'import' line, the second
\* token of a line starting with 'from'), later duplicates dropped; the text
\* "import a.b, c\nfrom d.e import f\n" gives ["a.b", "c", "d.e"].
C6_Original ==
    (pc = "build_graph" /\ nread > 0) =>
        /\ LET lines == LogicalLines(Get(disk, LastFile))
           IN LastRow = FirstSeen(Flatten([i \in 1..Len(lines) |->
                                              TargetsAsStated(lines[i])]))
        /\ ExampleHolds

\* C6 amended: the same, where a line starting with 'from' gives its second
\* token only if the line also holds an 'import' token.
C6_Amended ==
    (pc = "build_graph" /\ nread > 0) =>
        /\ LET lines == LogicalLines(Get(disk, LastFile))
           IN LastRow = FirstSeen(Flatten([i \in 1..Len(lines) |->
                                              TargetsAmended(lines[i])]))
        /\ ExampleHolds

\* The second import line repeats both names of the first, in another order.
C6_Witness ==
    /\ pc = "build_graph" /\ nread > 0
    /\ Get(disk, LastFile) = Text(<<l_import_c_as, l_import_ab_c, l_from_c>>)
    /\ LastRow = <<n_c, n_ab>>

\* The targets the scan extracts from the i-th file, taken alone.
FileTargets(i) ==
    Get(build_file(<<>>, files[i][1], Get(disk, files[i])), adjust(files[i][1]))

\* Two of the files scanned so far have the same node name.
NodeNameShared ==
    \E i, j \in 1..nread : i # j /\ adjust(files[i][1]) = adjust(files[j][1])

\* C11: after build_graph has processed any sequence of files, every target
\* extracted from a processed file is in the target list of the file's node
\* adjust(f), also when two files have the same node name: no file's
\* dependencies are lost.
C11_NoDependencyLost ==
    pc \in {"build_graph", "build_graph_done"} =>
        \A i \in 1..nread :
            /\ HasKey(graph, adjust(files[i][1]))
            /\ \A k \in 1..Len(FileTargets(i)) :
                   InList(FileTargets(i)[k], Get(graph, adjust(files[i][1])))

\* Where no two scanned files share a node name, nothing is lost.
C11_DistinctNodesKept ==
    (pc \in {"build_graph", "build_graph_done"} /\ ~NodeNameShared)
        => C11_NoDependencyLost

\* A node holds the targets of the last file scanned under its name, and
\* only those.
C11_LastFileWins ==
    pc \in {"build_graph", "build_graph_done"} =>
        \A i \in 1..nread :
            (\A j \in (i + 1)..nread : adjust(files[j][1]) # adjust(files[i][1]))
                => Get(graph, adjust(files[i][1])) = FileTargets(i)

----------------------------------------------------------------------------
(* color_label(names, start, stop, damping) applied to a list of names     *)

MaxNames == 3

Interpreters == {"python2", "python3"}

\* do_graph leaves start, stop and damping at 0.0, 1.0 and 3.0.
InitColor ==
    /\ MainUnused /\ BuildUnused
    /\ pc = "color_label"
    /\ interpreter \in Interpreters
    /\ \E S \in SUBSET NamesUpTo(MaxDepth) :
          /\ Cardinality(S) <= MaxNames
          /\ names = Sorted(S)
    /\ start \in {FInt(0), Frac(1, 2)}
    /\ stop = FInt(1)
    /\ damping \in {FInt(2), FInt(3)}
    /\ ret = None
    /\ DistanceUnused /\ BestClusterUnused /\ ClusterGraphUnused /\ DrawUnused
    /\ clusters = None /\ graph = None /\ string = None

CallColorLabel ==
    /\ pc = "color_label"
    /\ ret' = color_label(names, start, stop, damping)
    /\ pc' = "color_label_done"
    /\ UNCHANGED <<interpreter, names, start, stop, damping>>
    /\ UNCHANGED colorFrame

NextColor == CallColorLabel

SpecColor == InitColor /\ [][NextColor]_vars

ColorDone == pc = "color_label_done"

\* C5: color_label returns a mapping whose keys are exactly the names; the
\* empty list gives the empty mapping, a single name maps to rgb(start), the
\* six hex digits of the hue start.
C5_KeysAreNames ==
    ColorDone =>
        /\ ret # TypeError
        /\ DistinctKeys(ret)
        /\ KeySet(ret) = {names[i] : i \in 1..Len(names)}
        /\ names = <<>> => ret = <<>>
        /\ Len(names) = 1 => ret = << <<names[1], rgb_any_interpreter(start)>> >>

\* The same under Python 2, where '%02x' takes a float.
C5_KeysAreNamesPython2 == interpreter = "python2" => C5_KeysAreNames

----------------------------------------------------------------------------
(* main() and do_graph(...)                                                *)

MaxSelector == 5

\* l[k] for a Python list and an integer: a negative k counts from the end.
IndexError == "IndexError"

Subscript(l, k) ==
    IF 0 <= k /\ k < Len(l) THEN l[k + 1]
    ELSE IF -Len(l) <= k /\ k < 0 THEN l[Len(l) + k + 1]
    ELSE IndexError

\* list.sort() of a list of (str, str) pairs.
PairLess(x, y) == StrLess(x[1], y[1]) \/ (x[1] = y[1] /\ StrLess(x[2], y[2]))

RECURSIVE SortPairs(_)
SortPairs(l) ==
    IF l = <<>> THEN <<>>
    ELSE LET i == CHOOSE j \in 1..Len(l) :
                     \A k \in 1..Len(l) :
                         ~PairLess(l[k], l[j]) /\ (l[k] = l[j] => j <= k)
         IN <<l[i]>> \o SortPairs(SubSeq(l, 1, i - 1) \o SubSeq(l, i + 1, Len(l)))

\* The directory part of a relative file name ("" at the top).
DirName(f) ==
    LET parts == Split(f, "/")
    IN Join(SubSeq(parts, 1, Len(parts) - 1), "/")

\* compute_list(path): the files on the disk under the path, and one
\* cluster for the path itself and for every directory below it that is
\* visited; without recursion, the files at the top and the one cluster.
compute_files(d, path, recursive) ==
    SelectSeq(Keys(d), LAMBDA f : f[2] = path /\ (recursive \/ DirName(f[1]) = <<>>))

compute_clusters(d, path, recursive) ==
    LET dirs == {DirName(d[i][1][1]) : i \in {j \in 1..Len(d) : d[j][1][2] = path}}
        below == IF recursive THEN Sorted(dirs \ {<<>>}) ELSE <<>>
    IN << <<adjust(<<>>), path>> >> \o [i \in 1..Len(below) |-> <<adjust(below[i]), path>>]

RECURSIVE build_graph(_, _, _)
build_graph(fs, d, g) ==
    IF fs = <<>> THEN g
    ELSE build_graph(Tail(fs), d, build_file(g, Head(fs)[1], Get(d, Head(fs))))

RECURSIVE draw_loop(_, _, _, _)
draw_loop(nms, mode, cols, st) ==
    IF nms = <<>> THEN st
    ELSE draw_loop(Tail(nms), mode, cols, draw_node(Head(nms), mode, cols, st))

draw_graph(g, cls, cols, mode) ==
    draw_end(mode, draw_loop(Sorted(KeySet(g)), mode, cols,
                             [c_opened |-> <<>>, clusters |-> cls, string |-> <<>>]))

draw_begin_graph(concentrate) ==
    <<[kind |-> "digraph"]>>
        \o (IF concentrate THEN <<[kind |-> "concentrate"]>> ELSE <<>>)
        \o <<[kind |-> "node_defaults"]>>

draw_end_graph == <<[kind |-> "end"]>>

\* do_graph for one path: what it writes to sys.stdout, or the exception
\* it ends with before it writes anything.  The argument cls is NoClusters
\* for None and Given(l) for the list l.
do_graph(d, path, cls, mode, concentrate, recursive) ==
    LET fs == compute_files(d, path, recursive)
        autoclusters == compute_clusters(d, path, recursive)
        sorted_clusters ==
            SortPairs(IF ~cls.given THEN autoclusters
                      ELSE [i \in 1..Len(cls.list) |-> <<cls.list[i], <<>> >>])
        g == build_graph(fs, d, <<>>)
        only == mode \in {"ONLY_CLUSTERS", "ONLY_CLUSTERS_WITH_SELF_EDGES"}
        gc == build_graph_clusters(
                  g, [i \in 1..Len(sorted_clusters) |-> sorted_clusters[i][1]],
                  mode = "ONLY_CLUSTERS_WITH_SELF_EDGES")
        cols == color_label(Sorted(KeySet(IF only THEN gc ELSE g)),
                            FInt(0), FInt(1), FInt(3))
    IN IF cols = TypeError THEN TypeError
       ELSE draw_begin_graph(concentrate)
                \o draw_graph(g, sorted_clusters, cols, mode)
                \o draw_arrows(IF only THEN gc ELSE g)
                \o draw_end_graph

NoClusters == [given |-> FALSE, list |-> <<>>]
Given(l) == [given |-> TRUE, list |-> l]

\* The trees main is run on: nothing, one module, a package with a module
\* that imports its sibling.
MainDisks ==
    { <<>>,
      << << <<f_pkg, <<".">> >>, Text(<<l_import_ab_c>>) >> >>,
      << << <<f_init, <<".">> >>, Text(<<>>) >>,
         << <<f_mod, <<".">> >>, Text(<<l_from_c, l_import_ab_c>>) >> >> }

InitMain ==
    /\ files = None /\ nread = None
    /\ pc = "main"
    /\ interpreter \in Interpreters
    /\ disk \in MainDisks
    /\ args \in [graph : (-MaxSelector)..MaxSelector,
                  clusters : {NoClusters, Given(<<n_a, <<"p">> >>)},
                  concentrate : BOOLEAN,
                  no_recursive : BOOLEAN]
    /\ draw_mode = None
    /\ stdout = <<>>
    /\ stderr = <<>>
    /\ exit_status = None
    /\ DistanceUnused /\ BestClusterUnused /\ ClusterGraphUnused
    /\ colors = None /\ c_opened = None /\ todo = None /\ clusters_arg = None
    /\ names = None /\ start = None /\ stop = None /\ damping = None /\ ret = None
    /\ clusters = None /\ graph = None /\ string = None

\* draw_mode = DRAW_MODES[args.graph] succeeds.
MainSelect ==
    /\ pc = "main"
    /\ Subscript(DRAW_MODES, args.graph) # IndexError
    /\ draw_mode' = Subscript(DRAW_MODES, args.graph)
    /\ pc' = "do_graph"
    /\ UNCHANGED <<args, stdout, stderr, exit_status, interpreter, disk>>
    /\ UNCHANGED mainFrame

\* It raises IndexError: the help goes to sys.stderr and the process exits.
MainUsage ==
    /\ pc = "main"
    /\ Subscript(DRAW_MODES, args.graph) = IndexError
    /\ stderr' = Append(stderr, [kind |-> "help"])
    /\ exit_status' = 1
    /\ pc' = "exit"
    /\ UNCHANGED <<args, stdout, draw_mode, interpreter, disk>>
    /\ UNCHANGED mainFrame

MainDoGraph ==
    /\ pc = "do_graph"
    /\ LET out == do_graph(disk, <<".">>, args.clusters, draw_mode,
                           args.concentrate, ~args.no_recursive)
       IN IF out = TypeError
          THEN /\ exit_status' = 1
               /\ stderr' = Append(stderr, [kind |-> "traceback"])
               /\ UNCHANGED stdout
          ELSE /\ exit_status' = 0
               /\ stdout' = stdout \o out
               /\ UNCHANGED stderr
    /\ pc' = "exit"
    /\ UNCHANGED <<args, draw_mode, interpreter, disk>>
    /\ UNCHANGED mainFrame

NextMain == MainSelect \/ MainUsage \/ MainDoGraph

SpecMain == InitMain /\ [][NextMain]_vars

\* C8: for every selector outside 0..3, negative ones included, main aborts
\* before any output: do_graph is never called and sys.stdout stays empty.
C8_OutOfRangeAborts ==
    args.graph \notin 0..3 =>
        /\ pc # "do_graph"
        /\ stdout = <<>>
        /\ pc = "exit" => exit_status = 1

====
